---- MODULE Spec2Model ----
(***************************************************************************)
(* Model of the dependency visualizer prototype:                           *)
(*   dep_viz_stage2.py  download_apkindex / extract_dependencies / main    *)
(*   dep_viz_cli.py     the validators and main                            *)
(* Text is a sequence of one-character strings, so that split, strip and   *)
(* startswith are computed character by character as Python computes them. *)
(***************************************************************************)
EXTENDS Integers, Sequences, FiniteSets, TLC

VARIABLES prog, pc, package, tmpExists, transfer, attempts, extractCalls, served, ret,
          out, rc, cliArgs, errors

vars == <<prog, pc, package, tmpExists, transfer, attempts, extractCalls, served, ret,
          out, rc, cliArgs, errors>>

(***************************************************************************)
(* Bounds of the model.                                                     *)
(***************************************************************************)
\* at most this many items (pieces of text and member ends) in an archive
MaxItems == 3

(***************************************************************************)
(* Python string primitives.                                                *)
(***************************************************************************)
NL == "\n"

\* the characters of the model's alphabet that str.strip() and str.split() treat as
\* whitespace
Whitespace == {" ", "\t", "\n", "\r"}

IsSpace(c) == c \in Whitespace

\* s[n:]
DropFirst(s, n) == SubSeq(s, n + 1, Len(s))

\* s.startswith(p)
StartsWith(s, p) == Len(s) >= Len(p) /\ SubSeq(s, 1, Len(p)) = p

RECURSIVE LStrip(_)
LStrip(s) == IF s # <<>> /\ IsSpace(Head(s)) THEN LStrip(Tail(s)) ELSE s

RECURSIVE RStrip(_)
RStrip(s) ==
    IF s # <<>> /\ IsSpace(s[Len(s)]) THEN RStrip(SubSeq(s, 1, Len(s) - 1)) ELSE s

\* s.strip()
Strip(s) == RStrip(LStrip(s))

\* s.find(sep) + 1, 0 when sep does not occur
IndexOf(s, sep) ==
    LET hits == {i \in 1..(Len(s) - Len(sep) + 1) : SubSeq(s, i, i + Len(sep) - 1) = sep}
    IN  IF hits = {} THEN 0 ELSE CHOOSE i \in hits : \A j \in hits : i <= j

\* s.split(sep), sep not empty
RECURSIVE SplitOn(_, _)
SplitOn(s, sep) ==
    LET i == IndexOf(s, sep)
    IN  IF i = 0 THEN <<s>>
        ELSE <<SubSeq(s, 1, i - 1)>> \o SplitOn(DropFirst(s, i - 1 + Len(sep)), sep)

\* the leading run of non-whitespace characters of s
RECURSIVE TakeWord(_)
TakeWord(s) ==
    IF s = <<>> \/ IsSpace(Head(s)) THEN <<>> ELSE <<Head(s)>> \o TakeWord(Tail(s))

\* a plausible slip: split(" ") in place of split()
SplitOnSpace(s) == SplitOn(s, <<" ">>)

\* s.split() with no separator: the maximal runs of non-whitespace characters
RECURSIVE SplitWS(_)
SplitWS(s) ==
    LET t == LStrip(s)
        w == TakeWord(t)
    IN  IF t = <<>> THEN <<>> ELSE <<w>> \o SplitWS(DropFirst(t, Len(w)))

\* the byte that is no valid UTF-8
BadByte == "?"

\* bytes.decode("utf-8", errors="ignore"): invalid bytes are dropped
Decode(bytes) == SelectSeq(bytes, LAMBDA b : b # BadByte)

(***************************************************************************)
(* dep_viz_stage2.py: extract_dependencies.                                 *)
(***************************************************************************)
\* pkg_name = None; depends = []
EmptyRecord == [named |-> FALSE, pkg_name |-> <<>>, depends |-> <<>>]

\* a plausible slip: only the first P: line and the first D: line of a block count
ParseLineFirstWins(rec, line) ==
    IF StartsWith(line, <<"P", ":">>)
    THEN IF rec.named THEN rec
         ELSE [rec EXCEPT !.named = TRUE, !.pkg_name = Strip(DropFirst(line, 2))]
    ELSE IF StartsWith(line, <<"D", ":">>)
    THEN IF rec.depends # <<>> THEN rec
         ELSE [rec EXCEPT !.depends = SplitWS(Strip(DropFirst(line, 2)))]
    ELSE rec

\* a plausible slip: the tag is looked for anywhere in the line ("P:" in line)
ParseLineContains(rec, line) ==
    LET p == IndexOf(line, <<"P", ":">>)
        d == IndexOf(line, <<"D", ":">>)
    IN  IF p > 0
        THEN [rec EXCEPT !.named = TRUE, !.pkg_name = Strip(DropFirst(line, p + 1))]
        ELSE IF d > 0
        THEN [rec EXCEPT !.depends = SplitWS(Strip(DropFirst(line, d + 1)))]
        ELSE rec

\* one pass of the loop over the lines of a block
ParseLine(rec, line) ==
    IF StartsWith(line, <<"P", ":">>)
    THEN [rec EXCEPT !.named = TRUE, !.pkg_name = Strip(DropFirst(line, 2))]
    ELSE IF StartsWith(line, <<"D", ":">>)
    THEN [rec EXCEPT !.depends = SplitWS(Strip(DropFirst(line, 2)))]
    ELSE rec

RECURSIVE ParseLines(_, _)
ParseLines(rec, lines) ==
    IF lines = <<>> THEN rec ELSE ParseLines(ParseLine(rec, Head(lines)), Tail(lines))

\* lines = block.strip().split("\n"), then the loop over the lines
ParseBlock(block) == ParseLines(EmptyRecord, SplitOn(Strip(block), <<NL>>))

\* pkg_name == package_name; None equals no string
NameEq(rec, package_name) == rec.named /\ rec.pkg_name = package_name

\* a plausible slip: no return inside the loop, so that the last matching block wins
RECURSIVE ScanBlocksLastWins(_, _)
ScanBlocksLastWins(blocks, package_name) ==
    IF blocks = <<>> THEN [found |-> FALSE, depends |-> <<>>, examined |-> 0]
    ELSE LET rec  == ParseBlock(Head(blocks))
             rest == ScanBlocksLastWins(Tail(blocks), package_name)
         IN  IF rest.found \/ ~NameEq(rec, package_name)
             THEN [rest EXCEPT !.examined = @ + 1]
             ELSE [found |-> TRUE, depends |-> rec.depends, examined |-> 1 + rest.examined]

\* the loop over the blocks of one member; examined counts the blocks compared
RECURSIVE ScanBlocks(_, _)
ScanBlocks(blocks, package_name) ==
    IF blocks = <<>> THEN [found |-> FALSE, depends |-> <<>>, examined |-> 0]
    ELSE LET rec == ParseBlock(Head(blocks))
         IN  IF NameEq(rec, package_name)
             THEN [found |-> TRUE, depends |-> rec.depends, examined |-> 1]
             ELSE LET rest == ScanBlocks(Tail(blocks), package_name)
                  IN  [rest EXCEPT !.examined = @ + 1]

\* a plausible slip: only the first member of the container is read
ScanMembersFirstOnly(members, package_name) ==
    IF members = <<>> \/ ~Head(members).isfile
    THEN [found |-> FALSE, depends |-> <<>>, examined |-> 0, read |-> 0]
    ELSE LET r == ScanBlocks(SplitOn(Decode(Head(members).data), <<NL, NL>>), package_name)
         IN  [found |-> r.found, depends |-> r.depends, examined |-> r.examined, read |-> 1]

\* the loop over tar.getmembers(); read counts the members whose content was read
RECURSIVE ScanMembers(_, _)
ScanMembers(members, package_name) ==
    IF members = <<>> THEN [found |-> FALSE, depends |-> <<>>, examined |-> 0, read |-> 0]
    ELSE IF ~Head(members).isfile THEN ScanMembers(Tail(members), package_name)
    ELSE LET content == Decode(Head(members).data)
             blocks  == SplitOn(content, <<NL, NL>>)
             r       == ScanBlocks(blocks, package_name)
         IN  IF r.found
             THEN [found |-> TRUE, depends |-> r.depends, examined |-> r.examined, read |-> 1]
             ELSE LET rest == ScanMembers(Tail(members), package_name)
                  IN  [rest EXCEPT !.examined = @ + r.examined, !.read = @ + 1]

\* the value of ret before extract_dependencies has run
NoResult == [raised |-> FALSE, value |-> <<>>, line |-> 0, examined |-> 0, read |-> 0]

\* extract_dependencies: tarfile.open raises when the archive does not open; otherwise
\* the members the container lists are scanned and the function returns at line 58
\* (a block matched) or at line 59
extract_dependencies(archive, package_name) ==
    IF ~archive.opens THEN [NoResult EXCEPT !.raised = TRUE, !.line = 38]
    ELSE LET r == ScanMembers(archive.members, package_name)
         IN  [raised |-> FALSE, value |-> r.depends, line |-> IF r.found THEN 58 ELSE 59,
              examined |-> r.examined, read |-> r.read]

(***************************************************************************)
(* The inputs: what the repository serves and what the command line holds.  *)
(***************************************************************************)
\* the pieces of text a member of the served archive is made of, one below the other
Texts ==
    { <<>>,                                         \* an empty line
      <<" ">>,                                      \* a line of whitespace
      <<"P", ":", "a">>,
      <<"P", ":", " ", "A", BadByte, " ">>,
      <<" ", "P", ":", "a">>,                       \* an indented line
      <<"D", ":", "b">>,
      <<"D", ":", " ", "a", "\t", " ", "b">>,
      <<"X", ":", "b">>,                            \* a tag the parser does not know
      <<"P", ":", "a", NL, "D", ":", "b">> }        \* a record of two lines

\* the end of a member; a member that is no regular file (extractfile gives None for
\* it) stands between two members
NextMember == <<"NEXT">>

Items == Texts \cup {NextMember}

RECURSIVE Join(_)
Join(lines) ==
    IF lines = <<>> THEN <<>>
    ELSE IF Len(lines) = 1 THEN Head(lines)
    ELSE Head(lines) \o <<NL>> \o Join(Tail(lines))

FileMember(lines) == [isfile |-> TRUE, data |-> Join(lines)]

NoFileMember == [isfile |-> FALSE, data |-> <<>>]

\* the members of the archive that a sequence of texts and member ends makes up
RECURSIVE MembersOf(_, _)
MembersOf(items, cur) ==
    IF items = <<>> THEN <<FileMember(cur)>>
    ELSE IF Head(items) = NextMember
    THEN <<FileMember(cur), NoFileMember>> \o MembersOf(Tail(items), <<>>)
    ELSE MembersOf(Tail(items), Append(cur, Head(items)))

\* bytes tarfile.open raises on: no gzip stream, or no tar header at the start of it
CorruptArchive == [valid |-> FALSE, opens |-> FALSE, members |-> <<>>]

\* the archive whose stream holds items and then, when damaged, bytes that are no tar
\* header. tarfile (ignore_zeros unset) raises ReadError on a bad header at the start
\* of the stream only; a bad header further on ends the member list without an error
ArchiveOf(items, damaged) ==
    IF damaged /\ items = <<>> THEN CorruptArchive
    ELSE [valid |-> ~damaged, opens |-> TRUE, members |-> MembersOf(items, <<>>)]

\* every archive of at most MaxItems items, bytes that are no tar header counting as one
Archives ==
    { ArchiveOf(items, FALSE) : items \in UNION { [1..n -> Items] : n \in 0..MaxItems } }
    \cup
    { ArchiveOf(items, TRUE) : items \in UNION { [1..n -> Items] : n \in 0..(MaxItems - 1) } }

\* the values of --package
Queries == { <<"a">>, <<"A">> }

(***************************************************************************)
(* dep_viz_stage2.py: main.                                                 *)
(***************************************************************************)
\* parse_args returns the arguments
S2ParseArgs ==
    /\ prog = "stage2" /\ pc = "start"
    /\ package' \in Queries
    /\ pc' = "parsed"
    /\ UNCHANGED <<prog, tmpExists, transfer, attempts, extractCalls, served, ret, out, rc,
                   cliArgs, errors>>

\* argparse rejects the command line: SystemExit(2) leaves main uncaught
S2ParseError ==
    /\ prog = "stage2" /\ pc = "start"
    /\ pc' = "done" /\ rc' = 2 /\ out' = "usage"
    /\ UNCHANGED <<prog, package, tmpExists, transfer, attempts, extractCalls, served, ret,
                   cliArgs, errors>>

\* --help: argparse prints the help and raises SystemExit(0)
S2Help ==
    /\ prog = "stage2" /\ pc = "start"
    /\ pc' = "done" /\ rc' = 0 /\ out' = "help"
    /\ UNCHANGED <<prog, package, tmpExists, transfer, attempts, extractCalls, served, ret,
                   cliArgs, errors>>

\* download_apkindex returns: the temporary file holds what the repository served
DownloadOk ==
    /\ prog = "stage2" /\ pc = "parsed"
    /\ attempts' = attempts + 1
    /\ served' \in Archives
    /\ tmpExists' = TRUE
    /\ transfer' = "ok"
    /\ pc' = "downloaded"
    /\ UNCHANGED <<prog, package, extractCalls, ret, out, rc, cliArgs, errors>>

\* a plausible slip: a failed transfer is tried again
DownloadFailRetry ==
    /\ prog = "stage2" /\ pc = "parsed"
    /\ attempts' = attempts + 1
    /\ tmpExists' = FALSE
    /\ transfer' = "failed"
    /\ pc' = IF attempts = 0 THEN "parsed" ELSE "raising"
    /\ UNCHANGED <<prog, package, extractCalls, served, ret, out, rc, cliArgs, errors>>

\* urlretrieve raises: the temporary file is removed and RuntimeError raised
DownloadFail ==
    /\ prog = "stage2" /\ pc = "parsed"
    /\ attempts' = attempts + 1
    /\ tmpExists' = FALSE
    /\ transfer' = "failed"
    /\ pc' = "raising"
    /\ UNCHANGED <<prog, package, extractCalls, served, ret, out, rc, cliArgs, errors>>

\* what main prints for the list extract_dependencies returned
Report(deps) == IF deps # <<>> THEN "deps" ELSE "not_found_or_no_deps"

\* deps = extract_dependencies(apkindex_file, args.package); when it raises, control
\* passes to the except clause; otherwise os.remove(apkindex_file), the report and
\* return 0
Extract ==
    /\ prog = "stage2" /\ pc = "downloaded"
    /\ extractCalls' = extractCalls + 1
    /\ ret' = extract_dependencies(served, package)
    /\ IF ret'.raised
       THEN pc' = "raising" /\ UNCHANGED <<tmpExists, out, rc>>
       ELSE /\ tmpExists' = FALSE
            /\ out' = Report(ret'.value)
            /\ rc' = 0
            /\ pc' = "done"
    /\ UNCHANGED <<prog, package, transfer, attempts, served, cliArgs, errors>>

\* except Exception: the error is printed, return 1
MainExcept ==
    /\ prog = "stage2" /\ pc = "raising"
    /\ out' = "error"
    /\ rc' = 1
    /\ pc' = "done"
    /\ UNCHANGED <<prog, package, tmpExists, transfer, attempts, extractCalls, served, ret,
                   cliArgs, errors>>

(***************************************************************************)
(* dep_viz_cli.py: the validators and main.                                 *)
(***************************************************************************)
\* the characters of the class [A-Za-z0-9_.\-] that the model uses
PackageChars == {"a", "A", "b", "0", "_", ".", "-"}

\* PACKAGE_RE.match(name): ^[A-Za-z0-9_.\-]+$, where $ also matches before a final newline
PackageMatch(name) ==
    LET body == IF name # <<>> /\ name[Len(name)] = NL
                THEN SubSeq(name, 1, Len(name) - 1) ELSE name
    IN  body # <<>> /\ \A i \in 1..Len(body) : body[i] \in PackageChars

\* validate_package raises nothing
PackageOk(name) == name # <<>> /\ PackageMatch(name)

RemoteSchemes == {"http", "https", "git", "ssh"}

\* is_url
is_url(repo) == repo.scheme \in RemoteSchemes /\ repo.netloc

\* is_file_url
is_file_url(repo) == repo.scheme = "file" /\ repo.path

\* validate_repo: ok is FALSE when it raises; scheme and exists describe the value
\* returned (an absolute path that exists, or the URL as given)
validate_repo(repo) ==
    IF repo.empty THEN [ok |-> FALSE, scheme |-> "", exists |-> FALSE]
    ELSE IF repo.exists THEN [ok |-> TRUE, scheme |-> "", exists |-> TRUE]
    ELSE IF is_file_url(repo)
    THEN IF repo.pathExists THEN [ok |-> TRUE, scheme |-> "", exists |-> TRUE]
         ELSE [ok |-> FALSE, scheme |-> "", exists |-> FALSE]
    ELSE IF is_url(repo) THEN [ok |-> TRUE, scheme |-> repo.scheme, exists |-> FALSE]
    ELSE [ok |-> FALSE, scheme |-> "", exists |-> FALSE]

\* validate_test_mode raises nothing; repo_value is given by its scheme and existence
TestModeOk(mode, scheme, exists) ==
    /\ mode \in {"none", "readonly", "simulate"}
    /\ mode # "none" => (scheme \notin RemoteSchemes /\ exists)

\* validate_filter raises nothing
FilterOk(f) == ~f.given \/ ~(f.text # <<>> /\ Len(Strip(f.text)) = 0)

\* the errors list of main, by the names of the parameters that failed
Errors(args) ==
    LET v == validate_repo(args.repo)
        \* repo_for_mode = repo_value if repo_value is not None else args.repo
        scheme == IF v.ok THEN v.scheme ELSE args.repo.scheme
        exists == IF v.ok THEN v.exists ELSE args.repo.exists
    IN  (IF PackageOk(args.package) THEN <<>> ELSE <<"package">>)
        \o (IF v.ok THEN <<>> ELSE <<"repo">>)
        \o (IF TestModeOk(args.test_mode, scheme, exists) THEN <<>> ELSE <<"test_mode">>)
        \o (IF FilterOk(args.filter) THEN <<>> ELSE <<"filter">>)

\* the repositories of the command line: what urlparse and os.path.exists say of them
Repos ==
    { r \in [empty : BOOLEAN, exists : BOOLEAN, scheme : {"", "file", "https", "ftp"},
             netloc : BOOLEAN, path : BOOLEAN, pathExists : BOOLEAN] :
        /\ r.empty => (~r.exists /\ r.scheme = "" /\ ~r.netloc /\ ~r.path)
        /\ r.pathExists => r.path
        /\ (r.scheme = "" /\ ~r.empty) => (r.path /\ ~r.netloc /\ r.pathExists = r.exists) }

CliArgs ==
    [ package   : { <<>>, <<"a", ".", "b">>, <<"a", "!">>, <<"a", NL>> },
      repo      : Repos,
      test_mode : {"none", "readonly", "simulate"},
      filter    : { [given |-> FALSE, text |-> <<>>], [given |-> TRUE, text |-> <<>>],
                    [given |-> TRUE, text |-> <<" ">>], [given |-> TRUE, text |-> <<"u">>] } ]

\* parse_args returns the arguments
CliParseArgs ==
    /\ prog = "cli" /\ pc = "start"
    /\ cliArgs' \in CliArgs
    /\ pc' = "parsed"
    /\ UNCHANGED <<prog, package, tmpExists, transfer, attempts, extractCalls, served, ret, out,
                   rc, errors>>

\* argparse rejects the command line and raises SystemExit: main returns 2
CliParseError ==
    /\ prog = "cli" /\ pc = "start"
    /\ pc' = "done" /\ rc' = 2 /\ out' = "usage"
    /\ UNCHANGED <<prog, package, tmpExists, transfer, attempts, extractCalls, served, ret,
                   cliArgs, errors>>

\* --help or --version: argparse prints and raises SystemExit(0), and main returns 2
CliHelp ==
    /\ prog = "cli" /\ pc = "start"
    /\ pc' = "done" /\ rc' = 2 /\ out' \in {"help", "version"}
    /\ UNCHANGED <<prog, package, tmpExists, transfer, attempts, extractCalls, served, ret,
                   cliArgs, errors>>

\* a plausible slip: the errors are printed and main still returns 0
CliValidateIgnore ==
    /\ prog = "cli" /\ pc = "parsed"
    /\ errors' = Errors(cliArgs)
    /\ out' = IF errors' # <<>> THEN "errors" ELSE "params"
    /\ rc' = 0
    /\ pc' = "done"
    /\ UNCHANGED <<prog, package, tmpExists, transfer, attempts, extractCalls, served, ret, cliArgs>>

\* the four validations, then return 1 with the errors or 0 with the parameters
CliValidate ==
    /\ prog = "cli" /\ pc = "parsed"
    /\ errors' = Errors(cliArgs)
    /\ out' = IF errors' # <<>> THEN "errors" ELSE "params"
    /\ rc' = IF errors' # <<>> THEN 1 ELSE 0
    /\ pc' = "done"
    /\ UNCHANGED <<prog, package, tmpExists, transfer, attempts, extractCalls, served, ret, cliArgs>>

\* the arguments before parse_args has run
NoArgs ==
    [ package |-> <<>>,
      repo |-> [empty |-> TRUE, exists |-> FALSE, scheme |-> "", netloc |-> FALSE,
                path |-> FALSE, pathExists |-> FALSE],
      test_mode |-> "none",
      filter |-> [given |-> FALSE, text |-> <<>>] ]

Init ==
    /\ prog \in {"stage2", "cli"}
    /\ pc = "start"
    /\ package = <<>>
    /\ tmpExists = FALSE
    /\ transfer = "none"
    /\ attempts = 0
    /\ extractCalls = 0
    /\ served = CorruptArchive
    /\ ret = NoResult
    /\ out = "none"
    /\ rc = 0
    /\ cliArgs = NoArgs
    /\ errors = <<>>

Next ==
    \/ S2ParseArgs
    \/ S2ParseError
    \/ S2Help
    \/ DownloadOk
    \/ DownloadFail
    \/ Extract
    \/ MainExcept
    \/ CliParseArgs
    \/ CliParseError
    \/ CliHelp
    \/ CliValidate

Spec == Init /\ [][Next]_vars

(***************************************************************************)
(* What the claims speak of, stated apart from the loops of the parser.     *)
(***************************************************************************)
TagP == <<"P", ":">>
TagD == <<"D", ":">>

\* the blocks of an archive in scan order: members in container order, blocks in
\* text order
RECURSIVE AllBlocks(_)
AllBlocks(members) ==
    IF members = <<>> THEN <<>>
    ELSE IF ~Head(members).isfile THEN AllBlocks(Tail(members))
    ELSE SplitOn(Decode(Head(members).data), <<NL, NL>>) \o AllBlocks(Tail(members))

\* the number of regular members among the first n members
FilesAmong(members, n) == Cardinality({i \in 1..n : members[i].isfile})

\* the lines of a block as text, and once the block's surrounding whitespace is trimmed
RawLines(block) == SplitOn(block, <<NL>>)
TrimmedLines(block) == SplitOn(Strip(block), <<NL>>)

\* the index of the last line that begins with tag, 0 when there is none
LastTagged(lines, tag) ==
    LET hits == {i \in 1..Len(lines) : StartsWith(lines[i], tag)}
    IN  IF hits = {} THEN 0 ELSE CHOOSE i \in hits : \A j \in hits : j <= i

\* v is the sequence of the maximal whitespace-free runs of s, left to right
IsTokensOf(v, s) ==
    LET starts == {i \in 1..Len(s) : ~IsSpace(s[i]) /\ (i = 1 \/ IsSpace(s[i - 1]))}
        end(i) == CHOOSE j \in i..Len(s) :
                      /\ \A k \in i..j : ~IsSpace(s[k])
                      /\ (j = Len(s) \/ IsSpace(s[j + 1]))
    IN  /\ Len(v) = Cardinality(starts)
        /\ \A i \in starts :
               v[Cardinality({j \in starts : j <= i})] = SubSeq(s, i, end(i))

\* the block declares name: the last P: line of the trimmed block carries it
Declares(block, name) ==
    LET lines == TrimmedLines(block)
        p     == LastTagged(lines, TagP)
    IN  p > 0 /\ Strip(DropFirst(lines[p], 2)) = name

\* v is the dependency list of the block: the tokens of its last D: line, or empty
IsDepsOf(v, block) ==
    LET lines == TrimmedLines(block)
        d     == LastTagged(lines, TagD)
    IN  IF d = 0 THEN v = <<>> ELSE IsTokensOf(v, DropFirst(lines[d], 2))

\* the blocks of the served archive
Blocks == AllBlocks(served.members)

\* the blocks of the served archive, as a set
BlockSet ==
    LET bs == Blocks
    IN  {bs[i] : i \in 1..Len(bs)}

\* the positions, in scan order, of the blocks that declare the queried name
Matches ==
    LET bs == Blocks
    IN  {i \in 1..Len(bs) : Declares(bs[i], package)}

FirstMatch ==
    LET m == Matches
    IN  CHOOSE i \in m : \A j \in m : i <= j

\* the first block, in scan order, that declares the queried name
FirstBlock == Blocks[FirstMatch]

\* extract_dependencies has run on an archive that opened
Scanned == prog = "stage2" /\ extractCalls = 1 /\ served.opens

\* the number of members the scan has to read to reach block i
ReadUpTo(i) ==
    LET n == CHOOSE k \in 1..Len(served.members) :
                 /\ Len(AllBlocks(SubSeq(served.members, 1, k))) >= i
                 /\ \A j \in 1..(k - 1) : Len(AllBlocks(SubSeq(served.members, 1, j))) < i
    IN  FilesAmong(served.members, n)

Tagged(line) == StartsWith(line, TagP) \/ StartsWith(line, TagD)

(***************************************************************************)
(* C1                                                                       *)
(***************************************************************************)
\* C1: when main of stage 2 has returned, the temporary archive file no longer
\* exists, whichever way main ended.
C1_TempFileRemoved == (prog = "stage2" /\ pc = "done") => ~tmpExists

(***************************************************************************)
(* C2                                                                       *)
(***************************************************************************)
\* what extract_dependencies returns for a name that no block declares: here the
\* name b and an archive whose only member is empty
NotFoundValue == extract_dependencies(ArchiveOf(<<>>, FALSE), <<"b">>).value

\* C2: a lookup that matched a block with a P: line and no D: line can be told from
\* a lookup that matched nothing, by the value returned or by what main reports.
C2_FoundEmptyDistinct ==
    (Scanned /\ pc = "done" /\ Matches # {}
        /\ LastTagged(TrimmedLines(FirstBlock), TagD) = 0)
    => (ret.value # NotFoundValue \/ out # Report(NotFoundValue))

(***************************************************************************)
(* C3                                                                       *)
(***************************************************************************)
\* C3: when the record found for the queried name has a D: line, the list returned
\* is exactly the whitespace-separated tokens of that line, in their order.
C3_DependencyTokens ==
    (Scanned /\ Matches # {}) =>
        LET lines == TrimmedLines(FirstBlock)
            d     == LastTagged(lines, TagD)
        IN  d > 0 => (ret.line = 58 /\ IsTokensOf(ret.value, DropFirst(lines[d], 2)))

C3_Witness ==
    /\ Scanned /\ pc = "done" /\ Matches # {}
    /\ LastTagged(TrimmedLines(FirstBlock), TagD) > 0
    /\ ret.value = << <<"a">>, <<"b">> >>
    /\ out = "deps"

(***************************************************************************)
(* C4                                                                       *)
(***************************************************************************)
\* C4: the lookup returns at the first block, in scan order, whose name equals the
\* queried name exactly (case included), with that block's dependency list, and
\* has examined no block and read no member after it.
C4_FirstMatchWins ==
    Scanned =>
        /\ (ret.line = 58) = (Matches # {})
        /\ Matches # {} =>
               /\ IsDepsOf(ret.value, FirstBlock)
               /\ ret.examined = FirstMatch
               /\ ret.read = ReadUpTo(FirstMatch)

C4_Witness ==
    /\ Scanned /\ pc = "done"
    /\ Cardinality(Matches) >= 2
    /\ \E i \in Matches : ~IsDepsOf(ret.value, Blocks[i])
    /\ ret.read < FilesAmong(served.members, Len(served.members))
    /\ ret.examined < Len(Blocks)

(***************************************************************************)
(* C5                                                                       *)
(***************************************************************************)
\* C5: on archive bytes that are no valid gzip-compressed tar stream
\* extract_dependencies raises, main reports the error and returns 1, and neither a
\* dependency list nor the not-found message is produced.
C5_CorruptArchiveIsError ==
    (prog = "stage2" /\ extractCalls = 1 /\ ~served.valid) =>
        /\ ret.raised
        /\ pc \in {"raising", "done"}
        /\ out \notin {"deps", "not_found_or_no_deps"}
        /\ pc = "done" => (rc = 1 /\ out = "error")

C7_NoRetry ==
    /\ attempts <= 1
    /\ transfer = "failed" =>
           /\ extractCalls = 0
           /\ pc \in {"raising", "done"}
           /\ pc = "done" => rc = 1

C7_Witness == pc = "done" /\ transfer = "failed" /\ attempts = 1 /\ rc = 1

(***************************************************************************)
(* C8                                                                       *)
(***************************************************************************)
\* C8, as claimed: the exit code is 2 exactly when argument parsing failed, 1
\* exactly when the arguments parsed and a validation or runtime error occurred,
\* 0 exactly when the invocation succeeded; dep_viz_cli.main returns 0 or 1
\* whenever argument parsing did not fail.
C8_ExitCodes ==
    pc = "done" =>
        /\ (rc = 2) = (out = "usage")
        /\ (rc = 1) = (out \in {"errors", "error"})
        /\ (rc = 0) = (out \in {"params", "deps", "not_found_or_no_deps", "help", "version"})
        /\ (prog = "cli" /\ out # "usage") => rc \in {0, 1}

\* C8, amended: the exit code is 2 exactly when parse_args ended in SystemExit,
\* which in dep_viz_cli covers --help and --version as well as a rejected command
\* line; 1 exactly when the arguments parsed and a validator, the transfer or the
\* extraction failed; 0 otherwise (stage 2 exits 0 on --help).
C8_ExitCodesAmended ==
    pc = "done" =>
        LET exited == out = "usage" \/ (prog = "cli" /\ out \in {"help", "version"})
            failed == \/ prog = "cli" /\ ~exited /\ Errors(cliArgs) # <<>>
                      \/ prog = "stage2" /\ (transfer = "failed" \/ ret.raised)
        IN  /\ rc \in {0, 1, 2}
            /\ (rc = 2) = exited
            /\ (rc = 1) = failed
            /\ (rc = 0) = (~exited /\ ~failed)

C8_Witness == prog = "cli" /\ pc = "done" /\ out = "help" /\ rc = 2

(***************************************************************************)
(* C9                                                                       *)
(***************************************************************************)
\* the record of a block is that of its tagged lines alone, a block with no P: line
\* among lines matches no query, and a block of whitespace yields the empty record
IgnoresUntagged(block, lines) ==
    LET rec == ParseBlock(block)
    IN  /\ rec = ParseLines(EmptyRecord, SelectSeq(lines, Tagged))
        /\ LastTagged(lines, TagP) = 0 => \A q \in Queries : ~NameEq(rec, q)
        /\ Strip(block) = <<>> => rec = EmptyRecord

\* C9, as claimed: in every block of an archive that was scanned, the lines of the
\* block's text that begin with neither P: nor D: change nothing of the record; a
\* block none of whose lines begins with P: matches no query; an empty or
\* whitespace-only block yields no record and no error.
C9_UntaggedLinesIgnored ==
    Scanned =>
        /\ \A b \in BlockSet : IgnoresUntagged(b, RawLines(b))
        /\ ~ret.raised /\ pc = "done" /\ rc = 0

\* C9, amended: the same of the lines of the block once the block's leading and
\* trailing whitespace is trimmed (the trimming makes an indented first line of a
\* block a tagged line).
C9_UntaggedTrimmedLinesIgnored ==
    Scanned =>
        /\ \A b \in BlockSet : IgnoresUntagged(b, TrimmedLines(b))
        /\ ~ret.raised /\ pc = "done" /\ rc = 0

C9_Witness ==
    /\ Scanned /\ pc = "done" /\ ret.line = 59 /\ ret.examined = Len(Blocks)
    /\ \E b \in BlockSet : b # <<>> /\ Strip(b) = <<>>
    /\ \E b \in BlockSet :
           LET lines == TrimmedLines(b)
           IN  /\ LastTagged(lines, TagP) = 0
               /\ \E k \in 1..Len(lines) : lines[k] # <<>> /\ ~Tagged(lines[k])

(***************************************************************************)
(* C10                                                                      *)
(***************************************************************************)
\* C10: the record of a block takes its name from the last P: line and its
\* dependency list from the last D: line of that block, whichever comes first, and
\* the list returned for a match is that of the matching block itself.
C10_LastLinesOfOwnBlock ==
    Scanned =>
        /\ \A b \in BlockSet :
               LET rec   == ParseBlock(b)
                   lines == TrimmedLines(b)
                   p     == LastTagged(lines, TagP)
               IN  /\ rec.named = (p > 0)
                   /\ p > 0 => rec.pkg_name = Strip(DropFirst(lines[p], 2))
                   /\ IsDepsOf(rec.depends, b)
        /\ ret.line = 58 => (Matches # {} /\ IsDepsOf(ret.value, FirstBlock))

C10_Witness ==
    /\ Scanned /\ pc = "done" /\ ret.line = 58 /\ ret.value # <<>>
    /\ LET lines == TrimmedLines(FirstBlock)
           p     == LastTagged(lines, TagP)
           d     == LastTagged(lines, TagD)
       IN  /\ 0 < d /\ d < p
           /\ \E k \in 1..(p - 1) :
                  StartsWith(lines[k], TagP) /\ Strip(DropFirst(lines[k], 2)) # package

====
